---------------------------- MODULE Spec2Model ----------------------------
(***************************************************************************)
(* Ultrasound proximity alarm (src/ultrasound_proximity_alarm.py).         *)
(*                                                                         *)
(* Two threads share the scalar _amplitude under _amplitude_lock:          *)
(*   - main(): the control loop (measure_distance_cm, distance_to_-        *)
(*     amplitude, the locked store, the LED write, the sleep) and its      *)
(*     finally block;                                                      *)
(*   - audio_thread_entry(): the audio loop (generate_siren_chunk and the  *)
(*     blocking stream.write).                                             *)
(*                                                                         *)
(* Number representation.  The program computes in binary floating point;  *)
(* the model computes the same expressions in exact fixed-point            *)
(* arithmetic, so rounding errors of the float operations are not          *)
(* represented:                                                            *)
(*   time       in ticks of 0.1 microsecond          (TicksPerSec)         *)
(*   distance   in hundredths of a centimetre        (CmScale), the grid   *)
(*              round(distance_cm, 2) produces                             *)
(*   amplitude  in units of 10^-5                    (AmpScale)            *)
(*   phase      in units of 2*pi/PhaseTurn radians                         *)
(*   sin(x)     as SinQ(x)/SinScale, Bhaskara's rational approximation     *)
(*   sample     in units of 1/(AmpScale*SinScale)                          *)
(***************************************************************************)
EXTENDS Integers, Sequences, FiniteSets, TLC

-----------------------------------------------------------------------------
(* Units *)

TicksPerSec == 10 * 1000 * 1000
CmScale == 10 * 10
AmpScale == 100 * 1000

(* Resolution of the sine values. *)
SinScale == 1000


-----------------------------------------------------------------------------
(* Module constants of ultrasound_proximity_alarm.py *)

DISTANCE_THRESHOLD_CM == 50 * CmScale
MIN_VALID_DISTANCE_CM == 2 * CmScale
MAX_VALID_DISTANCE_CM == 400 * CmScale

SAMPLE_RATE == 44100
SIREN_FREQ_LOW == 800
SIREN_FREQ_HIGH == 1100
(* SIREN_CYCLE_SEC = 0.4, kept as the fraction 4/10 *)
SIREN_CYCLE_SEC_NUM == 4
SIREN_CYCLE_SEC_DEN == 10
CHUNK_SIZE == 1024
(* MAX_AMPLITUDE = 0.4 *)
MAX_AMPLITUDE == (4 * AmpScale) \div 10

(* centimetres of distance per second of echo pulse (line 72) *)
SOUND_CM_PER_SEC == 17150
(* timeout = time.time() + 0.02 (line 61) *)
ECHO_TIMEOUT == (2 * TicksPerSec) \div 100
(* time.sleep(0.00001), twice, around the trigger pulse (lines 56, 58) *)
TRIGGER_SLEEP == TicksPerSec \div (100 * 1000)

LOW == 0
HIGH == 1

-----------------------------------------------------------------------------
(* Arithmetic helpers *)

RECURSIVE Gcd(_, _)
Gcd(a, b) == IF b = 0 THEN a ELSE Gcd(b, a % b)

Abs(x) == IF x < 0 THEN -x ELSE x

Min(a, b) == IF a < b THEN a ELSE b

Max(a, b) == IF a > b THEN a ELSE b

(* Python's round(): nearest integer to n/d (n >= 0, d > 0), ties to even. *)
RoundHalfEven(n, d) ==
    LET q == n \div d
        r == n % d
    IN  IF 2 * r < d THEN q
        ELSE IF 2 * r > d THEN q + 1
        ELSE IF q % 2 = 0 THEN q ELSE q + 1

-----------------------------------------------------------------------------
(* measure_distance_cm, lines 71-73: the distance computed from the two     *)
(* clock readings, rounded to two decimals and clamped.                     *)

(* distance_cm = pulse_duration * 17150, then round(distance_cm, 2):        *)
(* hundredths of a cm = ticks * (17150*CmScale/TicksPerSec), in lowest      *)
(* terms so that the product stays in range.                                *)
PulseToDistance(pulse_duration) ==
    LET g == Gcd(SOUND_CM_PER_SEC * CmScale, TicksPerSec)
        num == (SOUND_CM_PER_SEC * CmScale) \div g
        den == TicksPerSec \div g
    IN  RoundHalfEven(pulse_duration * num, den)

(* a clamp that forgets the lower limit *)
ClampDistanceNoMin(distance_cm) == Min(MAX_VALID_DISTANCE_CM, distance_cm)

(* a clamp whose lower limit is zero *)
ClampDistanceMinZero(distance_cm) == Max(0, Min(MAX_VALID_DISTANCE_CM, distance_cm))

(* max(MIN_VALID_DISTANCE_CM, min(MAX_VALID_DISTANCE_CM, x)) *)
ClampDistance(distance_cm) ==
    Max(MIN_VALID_DISTANCE_CM, Min(MAX_VALID_DISTANCE_CM, distance_cm))

(* a deadline test that never fires *)
TimedOutNever(t, deadline) == FALSE

(* time.time() > timeout, lines 63 and 67 *)
TimedOut(t, deadline) == t > deadline

-----------------------------------------------------------------------------
(* distance_to_amplitude, lines 76-86 *)

(* the ramp without the threshold test *)
DistanceToAmplitudeNoThreshold(distance_cm) ==
    (MAX_AMPLITUDE * (DISTANCE_THRESHOLD_CM - distance_cm)) \div DISTANCE_THRESHOLD_CM

(* the ramp with a jump at the threshold: the test is >= instead of > and   *)
(* the ramp ends one step above zero                                        *)
DistanceToAmplitudeJump(distance_cm) ==
    IF distance_cm >= DISTANCE_THRESHOLD_CM
    THEN 0
    ELSE (MAX_AMPLITUDE * (DISTANCE_THRESHOLD_CM + CmScale - distance_cm))
             \div (DISTANCE_THRESHOLD_CM + CmScale)

(* fraction = 1.0 - distance_cm/DISTANCE_THRESHOLD_CM, as the fraction      *)
(* (THRESHOLD - d)/THRESHOLD; MAX_AMPLITUDE * fraction is a whole number of *)
(* amplitude units for every distance on the 0.01 cm grid.                  *)
distance_to_amplitude(distance_cm) ==
    IF distance_cm > DISTANCE_THRESHOLD_CM
    THEN 0
    ELSE LET fraction_num == DISTANCE_THRESHOLD_CM - distance_cm
         IN  (MAX_AMPLITUDE * fraction_num) \div DISTANCE_THRESHOLD_CM

-----------------------------------------------------------------------------
(* generate_siren_chunk, lines 89-121 *)

(* Phase unit: 2*pi*freq/SAMPLE_RATE is a whole number of units of          *)
(* 2*pi/PhaseTurn for both tones, and half a turn is a whole number too.    *)
PhaseGrain == Gcd(Gcd(SIREN_FREQ_LOW, SIREN_FREQ_HIGH), SAMPLE_RATE) \div 2
PhaseTurn == SAMPLE_RATE \div PhaseGrain
PhaseHalfTurn == PhaseTurn \div 2

(* half_cycle_samples = int(SAMPLE_RATE * SIREN_CYCLE_SEC / 2), line 107 *)
half_cycle_samples ==
    (SAMPLE_RATE * SIREN_CYCLE_SEC_NUM) \div (SIREN_CYCLE_SEC_DEN * 2)

(* cycle_len = 2 * half_cycle_samples, line 108 *)
cycle_len == 2 * half_cycle_samples

(* the tone chosen from the index inside the chunk, ignoring sample_cnt *)
FreqAtChunkLocal(n, sample_cnt) ==
    IF ((n - sample_cnt) % cycle_len) < half_cycle_samples
    THEN SIREN_FREQ_LOW ELSE SIREN_FREQ_HIGH

(* lines 109-111: the tone at absolute sample position n = sample_cnt + i *)
FreqAt(n, sample_cnt) ==
    LET cycle_pos == n % cycle_len
    IN  IF cycle_pos < half_cycle_samples THEN SIREN_FREQ_LOW ELSE SIREN_FREQ_HIGH

(* line 114: phase_deltas = 2*pi*freq/SAMPLE_RATE, in phase units *)
PhaseDeltas(sample_cnt, num_samples) ==
    [i \in 1..num_samples |-> FreqAt(sample_cnt + i - 1, sample_cnt) \div PhaseGrain]

(* The one element of a singleton set.  Only({F(v) : v \in {e}}) evaluates  *)
(* e once and hands F its value.                                            *)
Only(S) == CHOOSE v \in S : TRUE

(* np.cumsum: the running sums of a sequence of length n, by doubling: after *)
(* the round with stride k, element i holds the sum of the (up to) 2k       *)
(* elements ending at i.                                                    *)
ScanRound(seq, n, k) ==
    SubSeq([i \in 1..n |-> IF i > k THEN seq[i] + seq[i - k] ELSE seq[i]], 1, n)

RECURSIVE Scan(_, _, _)
Scan(seq, n, k) ==
    IF k >= n THEN seq
    ELSE Only({Scan(next, n, 2 * k) : next \in {ScanRound(seq, n, k)}})

CumSum(seq, n) == Only({Scan(s, n, 1) : s \in {SubSeq(seq, 1, n)}})

(* np.sin of a phase, times SinScale: Bhaskara's approximation              *)
(* sin(pi*t) ~ 16 t (1-t) / (5 - 4 t (1-t)) on each half turn, rounded      *)
(* toward zero.                                                             *)
SinQ(phase) ==
    LET r == phase % PhaseTurn
        u == IF r <= PhaseHalfTurn THEN r ELSE r - PhaseHalfTurn
        p == u * (PhaseHalfTurn - u)
        v == (16 * SinScale * p) \div (5 * PhaseHalfTurn * PhaseHalfTurn - 4 * p)
    IN  IF r <= PhaseHalfTurn THEN v ELSE -v

(* line 119 and 120: the samples amp*sin(phase_arr) and the new state_ref *)
VoicedResult(phase_arr, sample_cnt, num_samples, amp) ==
    [samples |-> [i \in 1..num_samples |-> amp * SinQ(phase_arr[i])],
     phase |-> phase_arr[num_samples],
     sample_cnt |-> sample_cnt + num_samples]

(* line 115: phase_arr = np.cumsum(phase_deltas) + phase *)
PhaseArr(phase, sample_cnt, num_samples) ==
    Only({SubSeq([i \in 1..num_samples |-> cum[i] + phase], 1, num_samples) :
             cum \in {CumSum(PhaseDeltas(sample_cnt, num_samples), num_samples)}})

(* the voiced branch with the phase restarted from zero in every chunk *)
VoicedChunkPhaseReset(phase, sample_cnt, num_samples, amp) ==
    Only({VoicedResult(phase_arr, sample_cnt, num_samples, amp) :
             phase_arr \in {PhaseArr(0, sample_cnt, num_samples)}})

(* lines 106-121: the voiced branch *)
VoicedChunk(phase, sample_cnt, num_samples, amp) ==
    Only({VoicedResult(phase_arr, sample_cnt, num_samples, amp) :
             phase_arr \in {PhaseArr(phase, sample_cnt, num_samples)}})

(* a silent branch that also restarts the phase *)
SilentChunkPhaseReset(phase, sample_cnt, num_samples) ==
    [samples |-> [i \in 1..num_samples |-> 0],
     phase |-> 0,
     sample_cnt |-> sample_cnt + num_samples]

(* a silent branch that leaves the sample counter alone *)
SilentChunkNoAdvance(phase, sample_cnt, num_samples) ==
    [samples |-> [i \in 1..num_samples |-> 0],
     phase |-> phase,
     sample_cnt |-> sample_cnt]

(* lines 102-104: the silent branch; state_ref[0] is not assigned *)
SilentChunk(phase, sample_cnt, num_samples) ==
    [samples |-> [i \in 1..num_samples |-> 0],
     phase |-> phase,
     sample_cnt |-> sample_cnt + num_samples]

(* lines 100-121, after amp has been read: the chunk and the new state_ref *)
generate_siren_chunk(phase, sample_cnt, num_samples, amp) ==
    IF amp <= 0
    THEN SilentChunk(phase, sample_cnt, num_samples)
    ELSE VoicedChunk(phase, sample_cnt, num_samples, amp)

-----------------------------------------------------------------------------
(* Bounds of the model *)

(* generate_siren_chunk is called at most MaxChunks times by the audio loop *)
MaxChunks == 2

(* Clock readings the environment may produce during one call of            *)
(* measure_distance_cm, as ticks after the deadline was computed: 14577     *)
(* ticks are a 25.00 cm pulse and 49562 - 14577 a 60.00 cm pulse;           *)
(* ECHO_TIMEOUT is the deadline itself; the last is past the deadline and   *)
(* makes a pulse longer than 400 cm.                                        *)
ClockOffsets == {14577, 49562, ECHO_TIMEOUT, 450000}

-----------------------------------------------------------------------------
VARIABLES
    (* main(): the control loop *)
    cpc,            \* position of the main thread
    now,            \* time.time(), counted from the entry of the running
                    \* measure_distance_cm call (the clock is read nowhere else)
    timeout,        \* measure_distance_cm: timeout
    pulse_start,    \* measure_distance_cm: pulse_start
    pulse_duration, \* measure_distance_cm: pulse_duration
    ret,            \* which return statement of measure_distance_cm was taken
    distance,       \* main: distance
    amp_c,          \* main: amp
    exc,            \* the exception main() is unwinding with
    (* hardware *)
    echo,           \* level of ECHO_PIN while measure_distance_cm runs (the
                    \* pin is read nowhere else; LOW stands for it otherwise)
    led,            \* level of LED_PIN
    (* shared between the threads *)
    amplitude,      \* _amplitude
    lock,           \* holder of _amplitude_lock
    stop_audio,     \* _stop_audio
    (* audio_thread_entry() *)
    apc,            \* position of the audio thread
    amp_a,          \* generate_siren_chunk: amp
    state,          \* audio_thread_entry: state = [phase, sample_counter]
    chunk,          \* audio_thread_entry: chunk, until the sink has taken it
    stream,         \* the PyAudio stream: "none", "open", "closed"
    pa,             \* the PyAudio instance: "none", "live", "terminated"
    audio_errors,   \* number of "Audio error:" lines printed
    (* history *)
    committed,      \* value of the last completed write of _amplitude
    wait_exceeded,  \* the deadline passed while a wait loop of
                    \* measure_distance_cm was still waiting for its edge
    calls,          \* number of generate_siren_chunk calls that have returned
    late,           \* number of those calls started with _stop_audio set
    (* calls of the pure functions on their own *)
    trial,          \* the arguments and results of the calls made so far
    (* led_blink.py *)
    bpc,            \* position of the main thread: "b_idle" when not run
    qpc,            \* position of the quit thread, wait_for_quit
    stop_event,     \* stop_event.is_set()
    b_led,          \* level of LED_PIN
    on_ms,          \* on_ms
    off_ms,         \* off_ms
    waited,         \* milliseconds spent in the running stop_event.wait
    b_exc,          \* the exception the try block was left with
    (* ultrasound_led.py *)
    spc,            \* position of main(): "s_idle" when not run
    s_now,          \* time.time(), counted from the entry of the running
                    \* measure_distance_cm call
    s_pulse_start,  \* measure_distance_cm: pulse_start
    s_distance,     \* main: distance
    s_echo,         \* level of ECHO_PIN
    s_led,          \* level of LED_PIN
    s_exc           \* the exception main() is unwinding with

ctl_vars == <<cpc, now, timeout, pulse_start, pulse_duration, ret, distance,
              amp_c, exc>>
hw_vars == <<echo, led>>
shared_vars == <<amplitude, lock, stop_audio>>
audio_vars == <<apc, amp_a, state, chunk, stream, pa, audio_errors>>
hist_vars == <<committed, wait_exceeded>>
count_vars == <<calls, late>>
prog_vars == <<ctl_vars, hw_vars, shared_vars, audio_vars, hist_vars, count_vars>>
blink_vars == <<bpc, qpc, stop_event, b_led, on_ms, off_ms, waited, b_exc>>
simple_vars == <<spc, s_now, s_pulse_start, s_distance, s_echo, s_led, s_exc>>
(* what no step of the alarm touches *)
idle_vars == <<trial, blink_vars, simple_vars>>
measure_vars == <<now, timeout, pulse_start, pulse_duration, ret>>

(* positions of main() inside measure_distance_cm after the trigger pulse *)
MeasurePcs == {"c_rise", "c_rise_chk", "c_start", "c_fall", "c_fall_chk", "c_end"}

(* positions of main() inside the try block, lines 171-188 *)
TryPcs == MeasurePcs \cup {"c_trigger", "c_map", "c_acquire", "c_store",
                           "c_release", "c_led", "c_sleep"}

(* positions of main() inside the finally block, lines 193-196 *)
FinPcs == {"f_stop", "f_sleep", "f_led", "f_cleanup"}

(* positions of main() after which the process is gone *)
ExitPcs == {"done", "aborted"}

ProgInit ==
    /\ cpc = "c_trigger"
    /\ now = 0 /\ timeout = 0 /\ pulse_start = 0 /\ pulse_duration = 0
    /\ ret = "none"
    /\ distance = 0 /\ amp_c = 0
    /\ exc = "none"
    /\ echo = LOW
    /\ led = LOW
    /\ amplitude = 0
    /\ lock = "free"
    /\ stop_audio = FALSE
    /\ apc = "a_init"
    /\ amp_a = 0
    /\ state = [phase |-> 0, sample_cnt |-> 0]
    /\ chunk = <<>>
    /\ stream = "none"
    /\ pa = "none"
    /\ audio_errors = 0
    /\ committed = 0
    /\ wait_exceeded = FALSE
    /\ calls = 0
    /\ late = 0

(* led_blink.py is not run *)
BlinkIdle ==
    /\ bpc = "b_idle" /\ qpc = "q_idle"
    /\ stop_event = FALSE
    /\ b_led = LOW
    /\ on_ms = 0 /\ off_ms = 0 /\ waited = 0
    /\ b_exc = "none"

(* ultrasound_led.py is not run *)
SimpleIdle ==
    /\ spc = "s_idle"
    /\ s_now = 0 /\ s_pulse_start = 0 /\ s_distance = 0
    /\ s_echo = LOW /\ s_led = LOW
    /\ s_exc = "none"

(* the alarm is not run: it stays in its start state *)
AlarmIdle == ProgInit

-----------------------------------------------------------------------------
(* Environment: the clock and the echo input *)

(* time passes while measure_distance_cm runs *)
Tick ==
    /\ cpc \in MeasurePcs
    /\ \E d \in ClockOffsets :
          /\ timeout - ECHO_TIMEOUT + d > now
          /\ now' = timeout - ECHO_TIMEOUT + d
    /\ wait_exceeded' =
          IF now <= timeout /\ now' > timeout
          THEN \/ cpc \in {"c_rise", "c_rise_chk"} /\ echo = LOW
               \/ cpc \in {"c_fall", "c_fall_chk"} /\ echo = HIGH
          ELSE wait_exceeded
    /\ UNCHANGED <<cpc, timeout, pulse_start, pulse_duration, ret, distance,
                   amp_c, exc, hw_vars, shared_vars, audio_vars, committed,
                   count_vars,
                   idle_vars>>

(* the sensor drives ECHO_PIN to the other level *)
EchoChange ==
    /\ cpc \in MeasurePcs
    /\ echo' = 1 - echo
    /\ UNCHANGED <<ctl_vars, led, shared_vars, audio_vars, hist_vars, count_vars,
                   idle_vars>>

-----------------------------------------------------------------------------
(* main(): measure_distance_cm, lines 53-73 *)

(* leaving measure_distance_cm with a value: its locals go out of scope *)
Return(value, path) ==
    /\ distance' = value
    /\ ret' = path
    /\ cpc' = "c_map"
    /\ now' = 0 /\ timeout' = 0 /\ pulse_start' = 0
    /\ echo' = LOW

(* lines 55-61: the trigger pulse and the deadline; ECHO_PIN is at either   *)
(* level when the call starts                                               *)
CtlTrigger ==
    /\ cpc = "c_trigger"
    /\ now' = now + 2 * TRIGGER_SLEEP
    /\ timeout' = now' + ECHO_TIMEOUT
    /\ cpc' = "c_rise"
    /\ echo' \in {LOW, HIGH}
    /\ wait_exceeded' = FALSE
    /\ UNCHANGED <<pulse_start, pulse_duration, ret, distance, amp_c, exc,
                   led, shared_vars, audio_vars, committed, count_vars,
                   idle_vars>>

(* line 62: while GPIO.input(ECHO_PIN) == GPIO.LOW *)
CtlRise ==
    /\ cpc = "c_rise"
    /\ cpc' = IF echo = LOW THEN "c_rise_chk" ELSE "c_start"
    /\ UNCHANGED <<now, timeout, pulse_start, pulse_duration, ret, distance,
                   amp_c, exc, hw_vars, shared_vars, audio_vars, hist_vars,
                   count_vars,
                   idle_vars>>

(* lines 63-64: if time.time() > timeout: return MAX_VALID_DISTANCE_CM *)
CtlRiseChk ==
    /\ cpc = "c_rise_chk"
    /\ IF TimedOut(now, timeout)
       THEN Return(MAX_VALID_DISTANCE_CM, "timeout_rise")
       ELSE cpc' = "c_rise"
            /\ UNCHANGED <<now, timeout, pulse_start, distance, ret, echo>>
    /\ UNCHANGED <<pulse_duration, amp_c, exc, led, shared_vars, audio_vars,
                   hist_vars, count_vars,
                   idle_vars>>

(* line 65: pulse_start = time.time() *)
CtlStart ==
    /\ cpc = "c_start"
    /\ pulse_start' = now
    /\ cpc' = "c_fall"
    /\ UNCHANGED <<now, timeout, pulse_duration, ret, distance, amp_c, exc,
                   hw_vars, shared_vars, audio_vars, hist_vars, count_vars,
                   idle_vars>>

(* line 66: while GPIO.input(ECHO_PIN) == GPIO.HIGH *)
CtlFall ==
    /\ cpc = "c_fall"
    /\ cpc' = IF echo = HIGH THEN "c_fall_chk" ELSE "c_end"
    /\ UNCHANGED <<now, timeout, pulse_start, pulse_duration, ret, distance,
                   amp_c, exc, hw_vars, shared_vars, audio_vars, hist_vars,
                   count_vars,
                   idle_vars>>

(* lines 67-68: if time.time() > timeout: return MAX_VALID_DISTANCE_CM *)
CtlFallChk ==
    /\ cpc = "c_fall_chk"
    /\ IF TimedOut(now, timeout)
       THEN Return(MAX_VALID_DISTANCE_CM, "timeout_fall")
       ELSE cpc' = "c_fall"
            /\ UNCHANGED <<now, timeout, pulse_start, distance, ret, echo>>
    /\ UNCHANGED <<pulse_duration, amp_c, exc, led, shared_vars, audio_vars,
                   hist_vars, count_vars,
                   idle_vars>>

(* lines 69-73: pulse_end = time.time() and the computed, clamped distance *)
CtlEnd ==
    /\ cpc = "c_end"
    /\ LET pulse_end == now
       IN  /\ pulse_duration' = pulse_end - pulse_start
           /\ Return(ClampDistance(PulseToDistance(pulse_duration')), "computed")
    /\ UNCHANGED <<amp_c, exc, led, shared_vars, audio_vars, hist_vars, count_vars,
                   idle_vars>>

-----------------------------------------------------------------------------
(* main(): the rest of the control loop, lines 172-188 *)

(* line 173: amp = distance_to_amplitude(distance) *)
CtlMap ==
    /\ cpc = "c_map"
    /\ amp_c' = distance_to_amplitude(distance)
    /\ cpc' = "c_acquire"
    /\ pulse_duration' = 0
    /\ ret' = "none"
    /\ wait_exceeded' = FALSE
    /\ UNCHANGED <<now, timeout, pulse_start, distance, exc, hw_vars,
                   shared_vars, audio_vars, committed, count_vars,
                   idle_vars>>

(* _amplitude_lock can be taken: nobody holds it *)
CanAcquireAlways(holder) == TRUE

CanAcquire(holder) == holder = "free"

(* line 175: with _amplitude_lock *)
CtlAcquire ==
    /\ cpc = "c_acquire"
    /\ CanAcquire(lock)
    /\ lock' = "main"
    /\ cpc' = "c_store"
    /\ UNCHANGED <<measure_vars, distance, amp_c, exc, hw_vars, amplitude,
                   stop_audio, audio_vars, hist_vars, count_vars,
                   idle_vars>>

(* line 176: _amplitude = amp *)
CtlStore ==
    /\ cpc = "c_store"
    /\ amplitude' = amp_c
    /\ cpc' = "c_release"
    /\ UNCHANGED <<measure_vars, distance, amp_c, exc, hw_vars, lock,
                   stop_audio, audio_vars, hist_vars, count_vars,
                   idle_vars>>

(* leaving the with block of line 175: the write is complete *)
CtlRelease ==
    /\ cpc = "c_release"
    /\ lock' = "free"
    /\ committed' = amplitude
    /\ cpc' = "c_led"
    /\ UNCHANGED <<measure_vars, distance, amp_c, exc, hw_vars, amplitude,
                   stop_audio, audio_vars, wait_exceeded, count_vars,
                   idle_vars>>

(* the indicator level written for a distance, inverted *)
LedLevelInverted(distance_cm) ==
    IF distance_cm <= DISTANCE_THRESHOLD_CM THEN LOW ELSE HIGH

(* lines 178-185: the level written to LED_PIN *)
LedLevel(distance_cm) ==
    IF distance_cm <= DISTANCE_THRESHOLD_CM THEN HIGH ELSE LOW

(* lines 178-185: GPIO.output(LED_PIN, ...) and the status string *)
CtlLed ==
    /\ cpc = "c_led"
    /\ led' = LedLevel(distance)
    /\ cpc' = "c_sleep"
    /\ UNCHANGED <<measure_vars, distance, amp_c, exc, echo, shared_vars,
                   audio_vars, hist_vars, count_vars,
                   idle_vars>>

(* lines 187-188: print the status line, time.sleep(0.08), next iteration;  *)
(* distance and amp are not read again before lines 172-173 assign them     *)
CtlSleep ==
    /\ cpc = "c_sleep"
    /\ cpc' = "c_trigger"
    /\ distance' = 0
    /\ amp_c' = 0
    /\ UNCHANGED <<measure_vars, exc, hw_vars, shared_vars, audio_vars, hist_vars,
                   count_vars,
                   idle_vars>>

(* An exception leaves the try block of lines 170-188: KeyboardInterrupt at *)
(* any point, or an error raised by a GPIO call or by print.  The frame of  *)
(* measure_distance_cm is unwound; a lock held by the with block is         *)
(* released by its exit; the finally block reads neither distance nor amp.  *)
CtlRaise ==
    /\ cpc \in TryPcs
    /\ \E e \in {"KeyboardInterrupt", "Exception"} : exc' = e
    /\ cpc' = "f_stop"
    /\ now' = 0 /\ timeout' = 0 /\ pulse_start' = 0 /\ pulse_duration' = 0
    /\ ret' = "none"
    /\ lock' = IF lock = "main" THEN "free" ELSE lock
    /\ committed' = IF cpc = "c_release" THEN amplitude ELSE committed
    /\ wait_exceeded' = FALSE
    /\ distance' = 0
    /\ amp_c' = 0
    /\ echo' = LOW
    /\ UNCHANGED <<led, amplitude, stop_audio, audio_vars, count_vars,
                   idle_vars>>

-----------------------------------------------------------------------------
(* main(): the finally block, lines 192-197 *)

(* line 193: _stop_audio = True *)
FinStop ==
    /\ cpc = "f_stop"
    /\ stop_audio' = TRUE
    /\ cpc' = "f_sleep"
    /\ UNCHANGED <<measure_vars, distance, amp_c, exc, hw_vars, amplitude, lock,
                   audio_vars, hist_vars, count_vars,
                   idle_vars>>

(* line 194: time.sleep(0.2) *)
FinSleep ==
    /\ cpc = "f_sleep"
    /\ cpc' = "f_led"
    /\ UNCHANGED <<measure_vars, distance, amp_c, exc, hw_vars, shared_vars,
                   audio_vars, hist_vars, count_vars,
                   idle_vars>>

(* line 195: GPIO.output(LED_PIN, GPIO.LOW) *)
FinLed ==
    /\ cpc = "f_led"
    /\ led' = LOW
    /\ cpc' = "f_cleanup"
    /\ UNCHANGED <<measure_vars, distance, amp_c, exc, echo, shared_vars,
                   audio_vars, hist_vars, count_vars,
                   idle_vars>>

(* lines 196-197: GPIO.cleanup(), the goodbye line, and main() ends: the    *)
(* process exits and takes the daemon audio thread with it                  *)
FinCleanup ==
    /\ cpc = "f_cleanup"
    /\ cpc' = "done"
    /\ apc' = IF apc = "a_done" THEN "a_done" ELSE "killed"
    /\ UNCHANGED <<measure_vars, distance, amp_c, exc, hw_vars, shared_vars,
                   amp_a, state, chunk, stream, pa, audio_errors, hist_vars,
                   count_vars,
                   idle_vars>>

(* An exception leaves the finally block before it is finished: a          *)
(* KeyboardInterrupt at any point (line 194 sleeps for 0.2 s), or an error  *)
(* raised by GPIO.output or GPIO.cleanup.  The rest of the block is         *)
(* skipped and the process exits, taking the daemon audio thread with it.   *)
FinRaise ==
    /\ cpc \in FinPcs
    /\ \E e \in {"KeyboardInterrupt", "Exception"} : exc' = e
    /\ cpc' = "aborted"
    /\ apc' = IF apc = "a_done" THEN "a_done" ELSE "killed"
    /\ UNCHANGED <<measure_vars, distance, amp_c, hw_vars, shared_vars,
                   amp_a, state, chunk, stream, pa, audio_errors, hist_vars,
                   count_vars, idle_vars>>

-----------------------------------------------------------------------------
(* audio_thread_entry(), lines 124-145 *)

(* line 127: p = pyaudio.PyAudio() *)
AudioInit ==
    /\ apc = "a_init"
    /\ pa' = "live"
    /\ apc' = "a_open"
    /\ UNCHANGED <<ctl_vars, hw_vars, shared_vars, amp_a, state, chunk, stream,
                   audio_errors, hist_vars, count_vars,
                   idle_vars>>

(* lines 129-136: p.open(...) succeeds, state = [0.0, 0]; or it raises *)
AudioOpen ==
    /\ apc = "a_open"
    /\ \/ /\ stream' = "open"
          /\ state' = [phase |-> 0, sample_cnt |-> 0]
          /\ apc' = "a_check"
       \/ /\ apc' = "a_except"
          /\ UNCHANGED <<stream, state>>
    /\ UNCHANGED <<ctl_vars, hw_vars, shared_vars, amp_a, chunk, pa,
                   audio_errors, hist_vars, count_vars,
                   idle_vars>>

(* a loop condition that never looks at the flag *)
AudioLoopRunsAlways(flag) == TRUE

(* a loop condition that runs the loop when the flag is set *)
AudioLoopRunsInverted(flag) == flag

(* line 137: the loop condition, not _stop_audio *)
AudioLoopRuns(flag) == ~flag

(* line 137: while not _stop_audio *)
AudioCheck ==
    /\ apc = "a_check"
    /\ apc' = IF AudioLoopRuns(stop_audio) THEN "a_acquire" ELSE "a_stop"
    /\ UNCHANGED <<ctl_vars, hw_vars, shared_vars, amp_a, state, chunk, stream,
                   pa, audio_errors, hist_vars, count_vars,
                   idle_vars>>

(* line 138 calling generate_siren_chunk, line 97: with _amplitude_lock *)
AudioAcquire ==
    /\ apc = "a_acquire"
    /\ state.sample_cnt < MaxChunks * CHUNK_SIZE
    /\ CanAcquire(lock)
    /\ lock' = "audio"
    /\ apc' = "a_load"
    /\ late' = IF stop_audio THEN late + 1 ELSE late
    /\ UNCHANGED <<ctl_vars, hw_vars, amplitude, stop_audio, amp_a, state, chunk,
                   stream, pa, audio_errors, hist_vars, calls, idle_vars>>

(* the amplitude generate_siren_chunk works with: a value kept from the     *)
(* previous call instead of the shared one                                  *)
LoadAmplitudeStale(shared, previous) == previous

(* line 98: amp = _amplitude *)
LoadAmplitude(shared, previous) == shared

(* lines 98-121: amp is read and the lock released; the chunk is computed   *)
(* from the thread's own state_ref, which is updated in place               *)
AudioGenerate ==
    /\ apc = "a_load"
    /\ amp_a' = LoadAmplitude(amplitude, amp_a)
    /\ lock' = "free"
    /\ \E r \in {generate_siren_chunk(state.phase, state.sample_cnt,
                                       CHUNK_SIZE, amp_a')} :
          /\ chunk' = r.samples
          /\ state' = [phase |-> r.phase, sample_cnt |-> r.sample_cnt]
    /\ apc' = "a_write"
    /\ calls' = calls + 1
    /\ UNCHANGED <<ctl_vars, hw_vars, amplitude, stop_audio, stream, pa,
                   audio_errors, hist_vars, late, idle_vars>>

(* line 139: stream.write(chunk.tobytes()) returns, or raises; the sink has *)
(* the samples, and the amp of the finished generate_siren_chunk call is    *)
(* gone                                                                     *)
AudioWrite ==
    /\ apc = "a_write"
    /\ chunk' = <<>>
    /\ amp_a' = 0
    /\ \/ apc' = "a_check"
       \/ apc' = "a_except"
    /\ UNCHANGED <<ctl_vars, hw_vars, shared_vars, state, stream, pa,
                   audio_errors, hist_vars, count_vars,
                   idle_vars>>

(* lines 140-141: stream.stop_stream(); stream.close() *)
AudioStop ==
    /\ apc = "a_stop"
    /\ stream' = "closed"
    /\ apc' = "a_finally"
    /\ UNCHANGED <<ctl_vars, hw_vars, shared_vars, amp_a, state, chunk, pa,
                   audio_errors, hist_vars, count_vars,
                   idle_vars>>

(* a handler that prints nothing *)
ReportedSilently(n) == n

(* line 143: one more "Audio error:" line on the terminal *)
Reported(n) == n + 1

(* lines 142-143: except Exception as e: print("Audio error:", e) *)
AudioExcept ==
    /\ apc = "a_except"
    /\ audio_errors' = Reported(audio_errors)
    /\ apc' = "a_finally"
    /\ UNCHANGED <<ctl_vars, hw_vars, shared_vars, amp_a, state, chunk, stream,
                   pa, hist_vars, count_vars,
                   idle_vars>>

(* lines 144-145: finally: p.terminate() *)
AudioFinally ==
    /\ apc = "a_finally"
    /\ pa' = "terminated"
    /\ apc' = "a_done"
    /\ UNCHANGED <<ctl_vars, hw_vars, shared_vars, amp_a, state, chunk, stream,
                   audio_errors, hist_vars, count_vars,
                   idle_vars>>

-----------------------------------------------------------------------------
vars == <<prog_vars, trial, blink_vars, simple_vars>>

(* the steps of measure_distance_cm after the trigger pulse *)
CtlMeasure ==
    CtlRise \/ CtlRiseChk \/ CtlStart \/ CtlFall \/ CtlFallChk \/ CtlEnd

Control ==
    \/ CtlTrigger \/ CtlMeasure
    \/ CtlMap \/ CtlAcquire \/ CtlStore \/ CtlRelease \/ CtlLed \/ CtlSleep
    \/ CtlRaise
    \/ FinStop \/ FinSleep \/ FinLed \/ FinCleanup \/ FinRaise

Audio ==
    \/ AudioInit \/ AudioOpen \/ AudioCheck \/ AudioAcquire \/ AudioGenerate
    \/ AudioWrite \/ AudioStop \/ AudioExcept \/ AudioFinally

Environment == Tick \/ EchoChange

Init == ProgInit /\ trial = <<>> /\ BlinkIdle /\ SimpleIdle

Next == Control \/ Audio \/ Environment

Spec == Init /\ [][Next]_vars

-----------------------------------------------------------------------------
(* generate_siren_chunk on its own: from one start state and with one       *)
(* constant amplitude, n calls of len samples each next to one call of      *)
(* n*len samples.                                                           *)

(* longest chunk and largest number of chunks tried *)
MaxLen == 3
MaxCalls == 3

(* amplitudes, start phases and start sample counters tried; the counters   *)
(* sit at the start, just before a low->high and a high->low switch, and at *)
(* the start of the audio loop's ninth chunk                                *)
SirenAmps == {1, MAX_AMPLITUDE \div 2, MAX_AMPLITUDE}
SirenPhases == {0, 7}
SirenCounts == {0, half_cycle_samples - 2, cycle_len - 1, 8 * CHUNK_SIZE}

SirenInit ==
    /\ AlarmIdle /\ BlinkIdle /\ SimpleIdle
    /\ \E a \in SirenAmps, l \in 1..MaxLen, n \in 1..MaxCalls,
          p \in SirenPhases, c \in SirenCounts :
          trial = [amp |-> a, len |-> l, n |-> n,
                   phase0 |-> p, sample_cnt0 |-> c,
                   phase |-> p, sample_cnt |-> c,
                   calls |-> 0, out |-> <<>>, whole |-> <<>>]

(* one more of the n consecutive calls; its samples are appended *)
SirenChunk ==
    /\ trial.calls < trial.n
    /\ \E r \in {generate_siren_chunk(trial.phase, trial.sample_cnt,
                                       trial.len, trial.amp)} :
          trial' = [trial EXCEPT !.phase = r.phase,
                                 !.sample_cnt = r.sample_cnt,
                                 !.calls = @ + 1,
                                 !.out = @ \o r.samples]
    /\ UNCHANGED <<prog_vars, blink_vars, simple_vars>>

(* the single call producing n*len samples from the start state *)
SirenWhole ==
    /\ trial.whole = <<>>
    /\ trial' = [trial EXCEPT !.whole =
                    <<generate_siren_chunk(trial.phase0, trial.sample_cnt0,
                                           trial.n * trial.len, trial.amp)>>]
    /\ UNCHANGED <<prog_vars, blink_vars, simple_vars>>

SirenNext == SirenChunk \/ SirenWhole

SpecSiren == SirenInit /\ [][SirenNext]_vars

-----------------------------------------------------------------------------
(* distance_to_amplitude on its own: called on a distance that sweeps       *)
(* upward over the 0.01 cm grid from 0 to beyond the threshold, and on the  *)
(* largest distance measure_distance_cm returns.                            *)

(* how far beyond DISTANCE_THRESHOLD_CM the sweep goes, in 0.01 cm *)
MaxBeyond == 50

MapInit ==
    /\ AlarmIdle /\ BlinkIdle /\ SimpleIdle
    /\ trial = [d |-> 0, amp |-> distance_to_amplitude(0), calls |-> 1,
                prev_d |-> 0, prev_amp |-> distance_to_amplitude(0)]

(* the next call, on a larger distance; the previous call is remembered *)
MapCall(d) ==
    /\ d > trial.d
    /\ trial' = [d |-> d, amp |-> distance_to_amplitude(d),
                 calls |-> IF trial.calls < 2 THEN trial.calls + 1 ELSE 2,
                 prev_d |-> trial.d, prev_amp |-> trial.amp]
    /\ UNCHANGED <<prog_vars, blink_vars, simple_vars>>

MapStep ==
    /\ trial.d < DISTANCE_THRESHOLD_CM + MaxBeyond
    /\ \E step \in {1, CmScale} : MapCall(trial.d + step)

MapFar == MapCall(MAX_VALID_DISTANCE_CM)

MapNext == MapStep \/ MapFar

SpecMap == MapInit /\ [][MapNext]_vars

-----------------------------------------------------------------------------
(* generate_siren_chunk on its own, called as the audio loop calls it: on a *)
(* state that k earlier silent calls of the same length have left at        *)
(* [0.0, k*len], then with amplitudes that are zero or not in any order.    *)

(* largest number of calls made from the start state *)
MaxToneCalls == 3

(* chunk lengths tried: the short ones and the one the audio loop uses *)
ToneLens == (1..MaxLen) \cup {CHUNK_SIZE}

(* numbers of earlier silent calls: none, and as many as end one chunk      *)
(* before the chunk that holds the low->high or the high->low switch        *)
ToneStarts(len) ==
    {0, (half_cycle_samples \div len) - 1, (cycle_len \div len) - 1}

ToneInit ==
    /\ AlarmIdle /\ BlinkIdle /\ SimpleIdle
    /\ \E l \in ToneLens : \E k \in ToneStarts(l) :
          trial = [len |-> l, phase |-> 0, sample_cnt |-> k * l,
                   prev_phase |-> 0, prev_cnt |-> k * l,
                   amp |-> 0, calls |-> 0]

(* one more call, reading the amplitude amp *)
ToneCall(amp) ==
    /\ trial.calls < MaxToneCalls
    /\ \E r \in {generate_siren_chunk(trial.phase, trial.sample_cnt,
                                       trial.len, amp)} :
          trial' = [trial EXCEPT !.phase = r.phase,
                                 !.sample_cnt = r.sample_cnt,
                                 !.prev_phase = trial.phase,
                                 !.prev_cnt = trial.sample_cnt,
                                 !.amp = amp,
                                 !.calls = @ + 1]
    /\ UNCHANGED <<prog_vars, blink_vars, simple_vars>>

ToneSilent == ToneCall(0)

ToneVoiced == ToneCall(MAX_AMPLITUDE \div 2)

ToneNext == ToneSilent \/ ToneVoiced

SpecTone == ToneInit /\ [][ToneNext]_vars

-----------------------------------------------------------------------------
(* led_blink.py, lines 44-71: the blink loop and the quit thread.           *)
(* stop_event.wait(timeout) returns True at once when the event is set on   *)
(* entry; otherwise the caller blocks until the event is set (True) or the  *)
(* timeout has run out (False), whichever comes first.                      *)

(* longest on/off time tried, in milliseconds *)
MaxBlinkMs == 2

(* positions of the main thread inside the try block, lines 61-67 *)
BlinkLoopPcs == {"b_check", "b_high", "b_wait_on", "b_block_on", "b_low",
                 "b_wait_off", "b_block_off"}

(* lines 44-58: on_ms and off_ms are non-negative whole numbers; the event  *)
(* is clear and the quit thread waits in input()                            *)
BlinkInit ==
    /\ AlarmIdle /\ SimpleIdle /\ trial = <<>>
    /\ bpc = "b_check" /\ qpc = "q_input"
    /\ stop_event = FALSE
    /\ b_led \in {LOW, HIGH}
    /\ on_ms \in 0..MaxBlinkMs /\ off_ms \in 0..MaxBlinkMs
    /\ waited = 0
    /\ b_exc = "none"

b_frame == <<prog_vars, trial, simple_vars, on_ms, off_ms>>

(* a loop that carries on whatever the wait returned *)
BreaksNever(signaled) == FALSE

(* lines 63-64 and 66-67: if stop_event.wait(...): break *)
Breaks(signaled) == signaled

(* line 61: while not stop_event.is_set() *)
BlinkCheck ==
    /\ bpc = "b_check"
    /\ bpc' = IF stop_event THEN "b_fin_led" ELSE "b_high"
    /\ UNCHANGED <<b_frame, qpc, stop_event, b_led, waited, b_exc>>

(* line 62: GPIO.output(LED_PIN, GPIO.HIGH) *)
BlinkHigh ==
    /\ bpc = "b_high"
    /\ b_led' = HIGH
    /\ bpc' = "b_wait_on"
    /\ UNCHANGED <<b_frame, qpc, stop_event, waited, b_exc>>

(* line 65: GPIO.output(LED_PIN, GPIO.LOW) *)
BlinkLow ==
    /\ bpc = "b_low"
    /\ b_led' = LOW
    /\ bpc' = "b_wait_off"
    /\ UNCHANGED <<b_frame, qpc, stop_event, waited, b_exc>>

(* entering stop_event.wait: True at once when the event is set *)
WaitEnter(blocked, broken, carry_on) ==
    /\ bpc' = IF stop_event
              THEN (IF Breaks(TRUE) THEN broken ELSE carry_on)
              ELSE blocked
    /\ waited' = 0
    /\ UNCHANGED <<b_frame, qpc, stop_event, b_led, b_exc>>

(* leaving a blocked stop_event.wait(limit): False when the timeout ran out *)
(* first, True when the event was set first                                 *)
WaitLeave(limit, broken, carry_on) ==
    /\ waited = limit \/ stop_event
    /\ bpc' = IF Breaks(waited < limit) THEN broken ELSE carry_on
    /\ waited' = 0
    /\ UNCHANGED <<b_frame, qpc, stop_event, b_led, b_exc>>

(* line 63: stop_event.wait(timeout=on_ms / 1000.0) *)
BlinkWaitOn == bpc = "b_wait_on" /\ WaitEnter("b_block_on", "b_fin_led", "b_low")

BlinkWakeOn == bpc = "b_block_on" /\ WaitLeave(on_ms, "b_fin_led", "b_low")

(* line 66: stop_event.wait(timeout=off_ms / 1000.0) *)
BlinkWaitOff == bpc = "b_wait_off" /\ WaitEnter("b_block_off", "b_fin_led", "b_check")

BlinkWakeOff == bpc = "b_block_off" /\ WaitLeave(off_ms, "b_fin_led", "b_check")

(* a millisecond passes in a blocked wait whose event is still clear and    *)
(* whose timeout has not run out                                            *)
BlinkTick ==
    /\ bpc \in {"b_block_on", "b_block_off"}
    /\ ~stop_event
    /\ waited < (IF bpc = "b_block_on" THEN on_ms ELSE off_ms)
    /\ waited' = waited + 1
    /\ UNCHANGED <<b_frame, bpc, qpc, stop_event, b_led, b_exc>>

(* KeyboardInterrupt inside the try block of lines 60-67 *)
BlinkRaise ==
    /\ bpc \in BlinkLoopPcs
    /\ b_exc' = "KeyboardInterrupt"
    /\ bpc' = "b_fin_led"
    /\ waited' = 0
    /\ UNCHANGED <<b_frame, qpc, stop_event, b_led>>

(* line 69: finally: GPIO.output(LED_PIN, GPIO.LOW) *)
BlinkFinLed ==
    /\ bpc = "b_fin_led"
    /\ b_led' = LOW
    /\ bpc' = "b_cleanup"
    /\ UNCHANGED <<b_frame, qpc, stop_event, waited, b_exc>>

(* lines 70-71: GPIO.cleanup() and the goodbye line; the program ends *)
BlinkCleanup ==
    /\ bpc = "b_cleanup"
    /\ bpc' = "b_done"
    /\ UNCHANGED <<b_frame, qpc, stop_event, b_led, waited, b_exc>>

(* line 53: input() returns a line, or raises EOFError and the thread dies *)
QuitInput ==
    /\ qpc = "q_input"
    /\ bpc # "b_done"
    /\ qpc' \in {"q_set", "q_dead"}
    /\ UNCHANGED <<b_frame, bpc, stop_event, b_led, waited, b_exc>>

(* line 54: stop_event.set() *)
QuitSet ==
    /\ qpc = "q_set"
    /\ bpc # "b_done"
    /\ stop_event' = TRUE
    /\ qpc' = "q_done"
    /\ UNCHANGED <<b_frame, bpc, b_led, waited, b_exc>>

(* the steps the main thread takes by itself *)
BlinkStep ==
    \/ BlinkCheck \/ BlinkHigh \/ BlinkWaitOn \/ BlinkWakeOn
    \/ BlinkLow \/ BlinkWaitOff \/ BlinkWakeOff
    \/ BlinkFinLed \/ BlinkCleanup

BlinkNext == BlinkStep \/ BlinkTick \/ BlinkRaise \/ QuitInput \/ QuitSet

(* the main thread is scheduled and time passes in a blocked wait *)
SpecBlink ==
    /\ BlinkInit /\ [][BlinkNext]_vars
    /\ WF_vars(BlinkStep) /\ WF_vars(BlinkTick)

-----------------------------------------------------------------------------
(* ultrasound_led.py, lines 26-70: the simple variant.  Its                 *)
(* measure_distance_cm has no deadline and no clamp.                        *)

(* positions of main() inside the wait loops of measure_distance_cm *)
SimpleMeasurePcs == {"s_rise", "s_start", "s_fall", "s_end"}

(* positions of main() inside the try block, lines 55-64 *)
SimpleTryPcs == SimpleMeasurePcs \cup {"s_trigger", "s_led", "s_sleep"}

SimpleInit ==
    /\ AlarmIdle /\ BlinkIdle /\ trial = <<>>
    /\ spc = "s_trigger"
    /\ s_now = 0 /\ s_pulse_start = 0 /\ s_distance = 0
    /\ s_echo = LOW /\ s_led = LOW
    /\ s_exc = "none"

s_frame == <<prog_vars, trial, blink_vars>>

(* time passes while measure_distance_cm runs *)
SimpleTick ==
    /\ spc \in SimpleMeasurePcs
    /\ \E d \in ClockOffsets :
          /\ 2 * TRIGGER_SLEEP + d > s_now
          /\ s_now' = 2 * TRIGGER_SLEEP + d
    /\ UNCHANGED <<s_frame, spc, s_pulse_start, s_distance, s_echo, s_led, s_exc>>

(* the sensor drives ECHO_PIN to the other level *)
SimpleEcho ==
    /\ spc \in SimpleMeasurePcs
    /\ s_echo' = 1 - s_echo
    /\ UNCHANGED <<s_frame, spc, s_now, s_pulse_start, s_distance, s_led, s_exc>>

(* lines 28-32: the trigger pulse; ECHO_PIN is at either level *)
SimpleTrigger ==
    /\ spc = "s_trigger"
    /\ s_now' = 2 * TRIGGER_SLEEP
    /\ s_echo' \in {LOW, HIGH}
    /\ spc' = "s_rise"
    /\ UNCHANGED <<s_frame, s_pulse_start, s_distance, s_led, s_exc>>

(* a wait loop that gives up after the alarm variant's deadline *)
FallLoopRunsTimed(level, t) == level = HIGH /\ t <= ECHO_TIMEOUT

(* line 35: while GPIO.input(ECHO_PIN) == GPIO.LOW: pass *)
RiseLoopRuns(level, t) == level = LOW

(* line 38: while GPIO.input(ECHO_PIN) == GPIO.HIGH: pass *)
FallLoopRuns(level, t) == level = HIGH

(* lines 35-36: one poll of the first loop *)
SimpleRise ==
    /\ spc = "s_rise"
    /\ spc' = IF RiseLoopRuns(s_echo, s_now) THEN "s_rise" ELSE "s_start"
    /\ UNCHANGED <<s_frame, s_now, s_pulse_start, s_distance, s_echo, s_led, s_exc>>

(* line 37: pulse_start = time.time() *)
SimpleStart ==
    /\ spc = "s_start"
    /\ s_pulse_start' = s_now
    /\ spc' = "s_fall"
    /\ UNCHANGED <<s_frame, s_now, s_distance, s_echo, s_led, s_exc>>

(* lines 38-39: one poll of the second loop *)
SimpleFall ==
    /\ spc = "s_fall"
    /\ spc' = IF FallLoopRuns(s_echo, s_now) THEN "s_fall" ELSE "s_end"
    /\ UNCHANGED <<s_frame, s_now, s_pulse_start, s_distance, s_echo, s_led, s_exc>>

(* lines 40-44 and 56: distance = round(pulse_duration * 17150, 2) *)
SimpleEnd ==
    /\ spc = "s_end"
    /\ LET pulse_end == s_now
       IN  s_distance' = PulseToDistance(pulse_end - s_pulse_start)
    /\ s_now' = 0 /\ s_pulse_start' = 0
    /\ s_echo' = LOW
    /\ spc' = "s_led"
    /\ UNCHANGED <<s_frame, s_led, s_exc>>

(* lines 57-62: the level written to LED_PIN *)
SimpleLed ==
    /\ spc = "s_led"
    /\ s_led' = IF s_distance <= DISTANCE_THRESHOLD_CM THEN HIGH ELSE LOW
    /\ spc' = "s_sleep"
    /\ UNCHANGED <<s_frame, s_now, s_pulse_start, s_distance, s_echo, s_exc>>

(* lines 63-64: the status line, time.sleep(0.1), next iteration *)
SimpleSleep ==
    /\ spc = "s_sleep"
    /\ s_distance' = 0
    /\ spc' = "s_trigger"
    /\ UNCHANGED <<s_frame, s_now, s_pulse_start, s_echo, s_led, s_exc>>

(* KeyboardInterrupt, or an error, inside the try block of lines 54-64 *)
SimpleRaise ==
    /\ spc \in SimpleTryPcs
    /\ \E e \in {"KeyboardInterrupt", "Exception"} : s_exc' = e
    /\ spc' = "s_fin_led"
    /\ s_now' = 0 /\ s_pulse_start' = 0 /\ s_distance' = 0
    /\ s_echo' = LOW
    /\ UNCHANGED <<s_frame, s_led>>

(* line 68: finally: GPIO.output(LED_PIN, GPIO.LOW) *)
SimpleFinLed ==
    /\ spc = "s_fin_led"
    /\ s_led' = LOW
    /\ spc' = "s_cleanup"
    /\ UNCHANGED <<s_frame, s_now, s_pulse_start, s_distance, s_echo, s_exc>>

(* lines 69-70: GPIO.cleanup() and the goodbye line; main() ends *)
SimpleCleanup ==
    /\ spc = "s_cleanup"
    /\ spc' = "s_done"
    /\ UNCHANGED <<s_frame, s_now, s_pulse_start, s_distance, s_echo, s_led, s_exc>>

SimpleNext ==
    \/ SimpleTick \/ SimpleEcho
    \/ SimpleTrigger \/ SimpleRise \/ SimpleStart \/ SimpleFall \/ SimpleEnd
    \/ SimpleLed \/ SimpleSleep \/ SimpleRaise
    \/ SimpleFinLed \/ SimpleCleanup

SpecSimple == SimpleInit /\ [][SimpleNext]_vars

-----------------------------------------------------------------------------
(* main() and its environment alone, the audio thread taking no step:      *)
(* measure_distance_cm shares nothing with the audio thread (the lock is    *)
(* taken only after it has returned).  The clock keeps advancing and the    *)
(* main thread keeps being scheduled while it is inside                     *)
(* measure_distance_cm.                                                     *)

ControlNext == Control \/ Environment

SpecFair ==
    /\ Init /\ [][ControlNext]_vars
    /\ WF_vars(Tick) /\ WF_vars(CtlMeasure)

-----------------------------------------------------------------------------
(* Properties *)

(* the positions of main() at which the distance of this iteration is set *)
AfterMeasurePcs == {"c_map", "c_acquire", "c_store", "c_release", "c_led", "c_sleep"}

(* the largest sample magnitude allowed, in sample units *)
SampleCeiling == MAX_AMPLITUDE * SinScale

AllZero(samples) == \A i \in 1..Len(samples) : samples[i] = 0

(* C1: phase continuity of generate_siren_chunk.  With a constant non-zero  *)
(* amplitude and from the same start state, the concatenation of n          *)
(* consecutive chunks of len samples equals, sample by sample, the one      *)
(* chunk of n*len samples, and both runs end with the same phase and the    *)
(* same sample counter.                                                     *)
C1_PhaseContinuity ==
    (trial.calls = trial.n /\ trial.whole # <<>>) =>
        LET w == trial.whole[1]
        IN  /\ Len(trial.out) = trial.n * trial.len
            /\ \A i \in 1..Len(trial.out) : trial.out[i] = w.samples[i]
            /\ trial.phase = w.phase
            /\ trial.sample_cnt = w.sample_cnt

(* C1 witness: two chunks of three samples, the first of which straddles    *)
(* the low->high switch, compared with one chunk of six; the start phase is *)
(* not zero and some sample is not zero.                                    *)
C1_Witness ==
    /\ trial.calls = trial.n /\ trial.whole # <<>>
    /\ trial.n = 2 /\ trial.len = 3
    /\ trial.sample_cnt0 = half_cycle_samples - 2
    /\ trial.phase0 = 7
    /\ trial.amp = MAX_AMPLITUDE
    /\ \E i \in 1..Len(trial.out) : trial.out[i] # 0

(* C2: latest write wins.  Every amplitude generate_siren_chunk reads is    *)
(* the value of the last completed control-loop write (0 before the first). *)
C2_LatestWriteWins ==
    [][(apc = "a_load" /\ apc' = "a_write") => amp_a' = committed]_vars

(* C2 witness: the second chunk was generated with the half-scale amplitude *)
(* of a completed write, after a first chunk generated with the initial 0.  *)
C2_Witness ==
    /\ apc = "a_write"
    /\ amp_a = MAX_AMPLITUDE \div 2
    /\ committed = amp_a
    /\ state.sample_cnt = 2 * CHUNK_SIZE
    /\ state.phase = CHUNK_SIZE * (SIREN_FREQ_LOW \div PhaseGrain)

(* C3: output ceiling.  The shared amplitude is always in [0, MAX_AMPLITUDE] *)
(* and every sample of a chunk handed to the sink has magnitude at most     *)
(* MAX_AMPLITUDE.                                                           *)
C3_OutputCeiling ==
    /\ 0 <= amplitude /\ amplitude <= MAX_AMPLITUDE
    /\ \A i \in 1..Len(chunk) : Abs(chunk[i]) <= SampleCeiling

(* C3 witness: a voiced chunk with the largest amplitude the loop writes is *)
(* about to be handed to the sink, and one of its samples is at the peak of *)
(* the sine.                                                                *)
C3_Witness ==
    /\ apc = "a_write"
    /\ amp_a = distance_to_amplitude(MIN_VALID_DISTANCE_CM)
    /\ \E i \in 1..Len(chunk) : Abs(chunk[i]) >= amp_a * (SinScale - 1)

(* C4: clamping.  Whatever measure_distance_cm returns, by any of its three *)
(* return statements, lies in [MIN_VALID_DISTANCE_CM, MAX_VALID_DISTANCE_CM]. *)
C4_Clamping ==
    cpc \in AfterMeasurePcs =>
        /\ MIN_VALID_DISTANCE_CM <= distance
        /\ distance <= MAX_VALID_DISTANCE_CM

(* C4 witness: a zero-length pulse was measured and the computed return     *)
(* gave the lower limit.                                                    *)
C4_Witness ==
    /\ cpc = "c_map" /\ ret = "computed"
    /\ pulse_duration = 0
    /\ distance = MIN_VALID_DISTANCE_CM

(* C5: sensor timeout.  Whenever the deadline passed while the echo had not *)
(* risen (first loop) or had risen and not fallen (second loop), the call   *)
(* returns MAX_VALID_DISTANCE_CM.                                           *)
C5_Original ==
    (cpc = "c_map" /\ wait_exceeded) => distance = MAX_VALID_DISTANCE_CM

(* What lines 63-64 and 67-68 do give: a deadline test that reads a clock   *)
(* past the deadline returns MAX_VALID_DISTANCE_CM by a normal return.  The *)
(* test runs only after a poll that found the edge still missing, so an     *)
(* edge arriving after the deadline and before the next poll ends the loop  *)
(* without it.                                                              *)
DeadlineTestReturnsMax ==
    [][(/\ cpc \in {"c_rise_chk", "c_fall_chk"}
        /\ now > timeout
        /\ cpc' \notin {cpc, "f_stop"})
       => (/\ cpc' = "c_map"
           /\ distance' = MAX_VALID_DISTANCE_CM
           /\ ret' \in {"timeout_rise", "timeout_fall"}
           /\ exc' = "none")]_vars

(* C5 case: the echo rose and was still HIGH when the deadline passed; the  *)
(* second loop's deadline test returned the maximum.                        *)
C5_Witness ==
    /\ cpc = "c_map" /\ ret = "timeout_fall"
    /\ wait_exceeded
    /\ distance = MAX_VALID_DISTANCE_CM

(* C6: bounded echo wait.  With an advancing clock, a call of               *)
(* measure_distance_cm that is waiting for the echo always leaves its wait  *)
(* loops, whatever the echo input does.                                     *)
C6_BoundedEchoWait == (cpc \in MeasurePcs) ~> (cpc \notin MeasurePcs)

(* C6 witness: the echo was still LOW when the deadline passed and the      *)
(* first loop ended by its deadline test.                                   *)
C6_Witness ==
    /\ cpc = "c_map" /\ ret = "timeout_rise"
    /\ distance = MAX_VALID_DISTANCE_CM
    /\ wait_exceeded

(* C7: silence.  A call of generate_siren_chunk that reads amplitude 0      *)
(* returns CHUNK_SIZE samples that are all 0, leaves the phase of the state *)
(* as it was and advances the sample counter by CHUNK_SIZE.                 *)
C7_Silence ==
    [][(apc = "a_load" /\ apc' = "a_write" /\ amp_a' = 0)
       => (/\ Len(chunk') = CHUNK_SIZE
           /\ AllZero(chunk')
           /\ state'.phase = state.phase
           /\ state'.sample_cnt = state.sample_cnt + CHUNK_SIZE)]_vars

(* C7 witness: a silent second chunk after a voiced first one: the phase    *)
(* carried over is not zero.                                                *)
C7_Witness ==
    /\ apc = "a_write" /\ amp_a = 0
    /\ Len(chunk) = CHUNK_SIZE /\ AllZero(chunk)
    /\ state.sample_cnt = 2 * CHUNK_SIZE
    /\ state.phase > 0

(* C8: distance_to_amplitude is the reference mapping on every distance     *)
(* d >= 0: 0 beyond the threshold, MAX_AMPLITUDE*(1 - d/THRESHOLD) up to    *)
(* it; MAX_AMPLITUDE at 0, 0 at the threshold; never larger on a larger     *)
(* distance, and never falling faster than the slope of the ramp (no jump). *)
C8_ReferenceMapping ==
    /\ trial.d > DISTANCE_THRESHOLD_CM => trial.amp = 0
    /\ trial.d <= DISTANCE_THRESHOLD_CM =>
          trial.amp * DISTANCE_THRESHOLD_CM
              = MAX_AMPLITUDE * (DISTANCE_THRESHOLD_CM - trial.d)
    /\ trial.d = 0 => trial.amp = MAX_AMPLITUDE
    /\ trial.d = DISTANCE_THRESHOLD_CM => trial.amp = 0
    /\ trial.amp <= trial.prev_amp
    /\ (trial.prev_amp - trial.amp) * DISTANCE_THRESHOLD_CM
          <= MAX_AMPLITUDE * (trial.d - trial.prev_d)

(* C8 witness: the call at the threshold, right after the call one grid     *)
(* step below it.                                                           *)
C8_Witness ==
    /\ trial.d = DISTANCE_THRESHOLD_CM /\ trial.amp = 0
    /\ trial.prev_d = DISTANCE_THRESHOLD_CM - 1 /\ trial.prev_amp > 0
    /\ trial.calls = 2

(* C9: while the control loop sleeps at the end of an iteration, the        *)
(* indicator is ON iff the distance measured in the iteration is at most    *)
(* the threshold, and the shared amplitude is the mapping of that distance: *)
(* 25 cm gives ON and MAX_AMPLITUDE/2, 60 cm gives OFF and 0.               *)
C9_IterationEnd ==
    cpc = "c_sleep" =>
        /\ (led = HIGH) <=> (distance <= DISTANCE_THRESHOLD_CM)
        /\ led \in {LOW, HIGH}
        /\ distance > DISTANCE_THRESHOLD_CM => amplitude = 0
        /\ distance <= DISTANCE_THRESHOLD_CM =>
              amplitude * DISTANCE_THRESHOLD_CM
                  = MAX_AMPLITUDE * (DISTANCE_THRESHOLD_CM - distance)
        /\ distance = 25 * CmScale => (led = HIGH /\ 2 * amplitude = MAX_AMPLITUDE)
        /\ distance = 60 * CmScale => (led = LOW /\ amplitude = 0)

(* C9 witness: the iteration that measured 25.00 cm sleeps with the         *)
(* indicator ON and half the maximum amplitude.                             *)
C9_Witness ==
    /\ cpc = "c_sleep"
    /\ distance = 25 * CmScale
    /\ led = HIGH
    /\ 2 * amplitude = MAX_AMPLITUDE

C11_Original ==
    cpc \in ExitPcs => led = LOW

(* C11 case: an error raised inside the control loop, the finally block ran *)
(* to its end and the indicator is LOW.                                     *)
C11_Witness ==
    /\ cpc = "done" /\ exc = "Exception"
    /\ led = LOW /\ stop_audio

(* C12: when the audio thread has ended, and when the process exits, no     *)
(* audio handle is left: an opened stream has been stopped and closed and   *)
(* the PyAudio instance has been terminated.                                *)
C12_Original ==
    (apc = "a_done" \/ cpc \in ExitPcs) =>
        /\ stream # "open"
        /\ pa # "live"

(* C12 case: the stop flag was observed, the stream closed and the PyAudio  *)
(* instance terminated before main() ended.                                 *)
C12_Witness ==
    /\ cpc = "done" /\ apc = "a_done"
    /\ stream = "closed" /\ pa = "terminated"
    /\ calls > 0

(* the audio thread has failed: it is in, or has gone through, its except   *)
(* clause                                                                   *)
AudioFailed ==
    \/ apc = "a_except"
    \/ apc \in {"a_finally", "a_done"} /\ stream # "closed"

(* C13: audio sink failure is isolated.  A failure arises only from opening *)
(* or writing the stream and never with _amplitude_lock held; the steps of  *)
(* the failing thread change nothing the control loop reads or writes; the  *)
(* lock is never left taken by a failed thread, so the control loop is      *)
(* never held up; the failure is reported exactly once.                     *)
C13_FailureIsolated ==
    /\ [][/\ (apc' = "a_except" /\ apc # "a_except")
              => (apc \in {"a_open", "a_write"} /\ lock # "audio")
          /\ (apc \in {"a_except", "a_finally"} /\ apc' \notin {apc, "killed"})
              => UNCHANGED <<ctl_vars, hw_vars, shared_vars, hist_vars>>]_vars
    /\ [](AudioFailed => lock # "audio")
    /\ [](/\ audio_errors \in {0, 1}
          /\ (AudioFailed /\ apc # "a_except") => audio_errors = 1
          /\ audio_errors = 1 => stream # "closed")

(* C13 witness: a write failed after one chunk and was reported once; the   *)
(* thread has ended, and the control loop sleeps at the end of an iteration *)
(* with the indicator ON and its amplitude stored.                          *)
C13_Witness ==
    /\ apc = "a_done" /\ stream = "open" /\ audio_errors = 1
    /\ calls = 1 /\ state.phase = 0
    /\ cpc = "c_sleep" /\ led = HIGH
    /\ amplitude > 0 /\ committed = amplitude

(* C15: sample counter.  After k calls of generate_siren_chunk by the audio *)
(* loop, whatever amplitudes they read, the stored sample counter is        *)
(* k*CHUNK_SIZE; the state changes only when a call of the audio loop       *)
(* returns, and then the counter grows by exactly CHUNK_SIZE: it is never   *)
(* reset or decreased.                                                      *)
C15_SampleCounter ==
    /\ [](state.sample_cnt = calls * CHUNK_SIZE)
    /\ [][state' # state
             => (/\ apc = "a_load" /\ apc' = "a_write"
                 /\ calls' = calls + 1
                 /\ state'.sample_cnt = state.sample_cnt + CHUNK_SIZE)]_vars

(* C15 witness: two calls, a silent one and then one with the largest       *)
(* amplitude the control loop writes.                                       *)
C15_Witness ==
    /\ apc = "a_write" /\ calls = 2
    /\ amp_a = distance_to_amplitude(MIN_VALID_DISTANCE_CM)
    /\ state.phase = CHUNK_SIZE * (SIREN_FREQ_LOW \div PhaseGrain)
    /\ state.sample_cnt = 2 * CHUNK_SIZE

(* C19: MAX_AMPLITUDE is never written to the shared amplitude: every value *)
(* the control loop computes and writes is at most 0.96*MAX_AMPLITUDE.      *)
C19_NeverFullScale ==
    /\ amplitude # MAX_AMPLITUDE /\ amp_c # MAX_AMPLITUDE
    /\ 100 * amplitude <= 96 * MAX_AMPLITUDE
    /\ 100 * amp_c <= 96 * MAX_AMPLITUDE

(* C19 witness: the lower limit of 2 cm was measured and 0.96*MAX_AMPLITUDE *)
(* has just been written.                                                   *)
C19_Witness ==
    /\ cpc = "c_release"
    /\ distance = MIN_VALID_DISTANCE_CM
    /\ 100 * amplitude = 96 * MAX_AMPLITUDE

ScheduledAdvance(half) ==
    LET lows == Cardinality({n \in trial.prev_cnt..(trial.sample_cnt - 1) :
                                (n % (2 * half)) < half})
    IN  lows * SIREN_FREQ_LOW + (trial.len - lows) * SIREN_FREQ_HIGH

(* the phase advance the last call made, in the same unit *)
ActualAdvance == (trial.phase - trial.prev_phase) * PhaseGrain

(* half = round(SAMPLE_RATE * SIREN_CYCLE_SEC / 2) *)
RoundedHalf ==
    RoundHalfEven(SAMPLE_RATE * SIREN_CYCLE_SEC_NUM, SIREN_CYCLE_SEC_DEN * 2)

SamplesPerCycleSec == (SAMPLE_RATE * SIREN_CYCLE_SEC_NUM) \div SIREN_CYCLE_SEC_DEN

(* C18: each tone is held for SAMPLE_RATE*SIREN_CYCLE_SEC = 17640           *)
(* consecutive positions: every voiced call advances the phase by the tones *)
(* of a schedule whose half cycle is that long.                             *)
C18_Original ==
    /\ SamplesPerCycleSec = 17640
    /\ (trial.calls > 0 /\ trial.amp > 0)
          => ActualAdvance = ScheduledAdvance(SamplesPerCycleSec)

(* C18 case: a voiced chunk of single samples that covers position          *)
(* half_cycle_samples, inside the first SAMPLE_RATE*SIREN_CYCLE_SEC         *)
(* positions.                                                               *)
C18_Witness ==
    /\ trial.len = 1 /\ trial.amp > 0
    /\ trial.prev_cnt = half_cycle_samples
    /\ trial.sample_cnt < SamplesPerCycleSec

(* C14: led_blink.  The LED is HIGH throughout the on-wait and LOW          *)
(* throughout the off-wait; a wait that is not cut short lasts its full     *)
(* on_ms or off_ms and is followed by the other level; the loop is left     *)
(* (without an exception) only with the stop event set; a blocked wait      *)
(* whose event is set ends at once and leaves the loop; once the event is   *)
(* set the program ends; the finally block writes LOW and the LED stays LOW.*)
C14_Blink ==
    /\ [](/\ bpc \in {"b_wait_on", "b_block_on"} => b_led = HIGH
          /\ bpc \in {"b_wait_off", "b_block_off"} => b_led = LOW
          /\ bpc \in {"b_cleanup", "b_done"} => b_led = LOW)
    /\ [][/\ (bpc = "b_block_on" /\ bpc' = "b_low") => waited = on_ms
          /\ (bpc = "b_block_off" /\ bpc' = "b_check") => waited = off_ms
          /\ (bpc \in BlinkLoopPcs /\ bpc' = "b_fin_led" /\ b_exc' = "none")
              => stop_event
          /\ (/\ bpc \in {"b_block_on", "b_block_off"} /\ stop_event
              /\ waited < (IF bpc = "b_block_on" THEN on_ms ELSE off_ms)
              /\ bpc' # bpc)
              => bpc' = "b_fin_led"
          /\ (bpc \in {"b_wait_on", "b_wait_off"} /\ stop_event /\ bpc' # bpc)
              => bpc' = "b_fin_led"
          /\ (b_led' = HIGH /\ b_led = LOW) => bpc = "b_high"
          /\ stop_event => stop_event']_vars
    /\ (stop_event ~> (bpc = "b_done"))

(* C14 witness: the quit thread set the event; the program has ended        *)
(* without an exception and the LED is LOW.                                 *)
C14_Witness ==
    /\ bpc = "b_done" /\ b_exc = "none"
    /\ stop_event /\ qpc = "q_done"
    /\ b_led = LOW
    /\ on_ms = MaxBlinkMs

(* C17: the simple variant has no echo timeout.  While ECHO_PIN is LOW the  *)
(* first wait loop of ultrasound_led.py is not left, and while it is HIGH   *)
(* the second is not left, however much time has passed: only an exception  *)
(* ends the call, which then does not return; and for as long as the call   *)
(* runs the indicator is not written.                                       *)
C17_SimpleHangs ==
    [][/\ (spc = "s_rise" /\ s_echo = LOW /\ spc' # spc)
          => (spc' = "s_fin_led" /\ s_exc' # "none")
       /\ (spc = "s_fall" /\ s_echo = HIGH /\ spc' # spc)
          => (spc' = "s_fin_led" /\ s_exc' # "none")
       /\ (spc \in SimpleMeasurePcs /\ spc' \in SimpleMeasurePcs)
          => s_led' = s_led]_vars

(* C17 witness: the echo went HIGH and has not come back; the call is still *)
(* in its second loop long after the alarm variant's deadline, and the      *)
(* indicator still shows ON from the measurement before.                    *)
C17_Witness ==
    /\ spc = "s_fall" /\ s_echo = HIGH
    /\ s_now > 2 * TRIGGER_SLEEP + ECHO_TIMEOUT
    /\ s_led = HIGH

=============================================================================
